---- MODULE Spec2Model ----
(***************************************************************************)
(* JobAppREST: a Flask web layer (app.py) over a MongoDB collection        *)
(* (database.py) and a job-listing REST client (api_client.py).            *)
(*                                                                         *)
(* One request is handled at a time.  The state is the collection, the    *)
(* ObjectId generator of the store, and the last request together with     *)
(* what its handler called and answered.                                   *)
(***************************************************************************)
EXTENDS Integers, Sequences, FiniteSets, TLC

VARIABLES
    collection,  \* database.collection: the documents, in storage order
    oidCounter,  \* the next ObjectId the store assigns on insert_one
    route,       \* the handler that served the last request
    form,        \* POST /submit, POST /apply: the submitted form fields
    body,        \* JSON API: the parsed request body
    pathId,      \* PATCH /api/applications/<id>: the <id> path segment
    upstream,    \* what the listing service did for the outbound request
    calls,       \* functions the handler called, in order
    ret,         \* str id returned by the last add_application call
    response     \* the answer of the handler

vars == <<collection, oidCounter, route, form, body, pathId,
          upstream, calls, ret, response>>

-----------------------------------------------------------------------------
(* Bounds *)

MaxRecords == 2      \* documents the collection may hold
MaxJobs == 2         \* listings in one listing-service response

-----------------------------------------------------------------------------
(* Python values: a value carries its type, so that truthiness and str()   *)
(* are computed as Python computes them.                                   *)

None == [t |-> "None", v |-> ""]
PStr(s) == [t |-> "str", v |-> s]
PInt(digits) == [t |-> "int", v |-> digits]

\* bool(x)
Truthy(x) ==
    CASE x.t = "None" -> FALSE
      [] x.t = "str"  -> x.v # ""
      [] x.t = "int"  -> x.v # "0"

\* str(x)
PyStr(x) ==
    CASE x.t = "None" -> PStr("None")
      [] x.t = "str"  -> x
      [] x.t = "int"  -> PStr(x.v)

\* d.get(k, default) on a dict (a function from its keys)
DictGet(d, k, default) == IF k \in DOMAIN d THEN d[k] ELSE default

\* a dict restricted to some of its keys
Restrict(d, keys) == [k \in keys |-> d[k]]

-----------------------------------------------------------------------------
(* bson.ObjectId: a 12-byte value, rendered by str() as 24 hex digits and  *)
(* parsed back by ObjectId(str), which raises InvalidId on anything else.  *)

OidHexLen == 24
HexChars == <<"0","1","2","3","4","5","6","7","8","9","a","b","c","d","e","f">>

RECURSIVE ToHex(_, _)
ToHex(n, width) ==
    IF width = 0 THEN <<>>
    ELSE Append(ToHex(n \div 16, width - 1), HexChars[(n % 16) + 1])

\* str(ObjectId)
ObjectIdStr(oid) == ToHex(oid, OidHexLen)

HexVal(c) == CHOOSE i \in 0..15 : HexChars[i + 1] = c

RECURSIVE FromHex(_)
FromHex(s) ==
    IF s = <<>> THEN 0
    ELSE FromHex(SubSeq(s, 1, Len(s) - 1)) * 16 + HexVal(s[Len(s)])

IsHex(s) == \A i \in 1..Len(s) : \E j \in 1..16 : HexChars[j] = s[i]

\* ObjectId(s)
ObjectId(s) ==
    IF Len(s) = OidHexLen /\ IsHex(s)
    THEN [exc |-> "", oid |-> FromHex(s)]
    ELSE [exc |-> "InvalidId", oid |-> 0]

-----------------------------------------------------------------------------
(* database.py *)

Ids(coll) == {coll[i]._id : i \in 1..Len(coll)}

\* insert_one as a replace of the newest document (an upsert on a filter that
\* matches it) instead of an insert
insert_one_Replace(coll, oid, document) ==
    IF coll = <<>> THEN <<[_id |-> oid, f |-> document]>>
    ELSE [coll EXCEPT ![Len(coll)] = [_id |-> oid, f |-> document]]

\* collection.insert_one(document); oid is the ObjectId the store generates
insert_one(coll, oid, document) == Append(coll, [_id |-> oid, f |-> document])

\* add_application(application_data)
add_application(coll, oid, application_data) ==
    [coll |-> insert_one(coll, oid, application_data),
     ret  |-> ObjectIdStr(oid)]

\* number of positional parameters add_application declares
AddApplicationArity == 1

\* get_all_applications with the _id field removed from each document
get_all_applications_DropId(coll) ==
    [i \in 1..Len(coll) |-> [_id |-> <<>>, f |-> coll[i].f]]

\* get_all_applications()
get_all_applications(coll) ==
    [i \in 1..Len(coll) |-> [_id |-> ObjectIdStr(coll[i]._id), f |-> coll[i].f]]

\* connect(): the shared application collection
connect(coll) == coll

\* list_applications(coll): every stored document, in storage order
list_applications(coll) == coll

\* update_application_status(coll, oid, status): sets the status field of the
\* document whose _id is oid; ok says whether a document was found and modified
update_application_status(coll, oid, status) ==
    LET hit == {i \in 1..Len(coll) : coll[i]._id = oid}
        new == [i \in 1..Len(coll) |->
                  IF i \in hit
                  THEN [coll[i] EXCEPT !.f = [k \in DOMAIN coll[i].f \cup {"status"} |->
                                                IF k = "status" THEN status ELSE coll[i].f[k]]]
                  ELSE coll[i]]
    IN  [coll |-> new, ok |-> hit # {} /\ new # coll]

-----------------------------------------------------------------------------
(* api_client.py *)

Return(value) == [exc |-> "", value |-> value]
Raise(exc) == [exc |-> exc, value |-> <<>>]

ListingKeys == {"title", "company", "location", "link"}

\* the dict appended to normalized for one job (a dict) of the jobs list
NormalizeJob(job) ==
    [k \in ListingKeys |->
        IF k = "title" THEN PyStr(DictGet(job, "title", PStr("N/A")))
        ELSE PyStr(DictGet(job, k, PStr("")))]

\* requests.get(...) followed by response.raise_for_status(): an exception is
\* raised on a network failure and on a 4xx or 5xx status
RequestRaises(up) == up.net = "fail" \/ (up.status >= 400 /\ up.status < 600)

\* get_jobs(job_title), given what the listing service does
get_jobs(job_title, up) ==
    IF RequestRaises(up) THEN Return(<<>>)
    ELSE IF up.body.kind = "nonjson" THEN Return(<<>>)       \* ValueError
    ELSE IF up.body.kind # "dict" THEN Raise("AttributeError") \* data.get
    ELSE LET jobs == IF up.body.hasJobs THEN up.body.jobs
                     ELSE [kind |-> "None", items |-> <<>>]
         IN  IF jobs.kind # "list" THEN Return(<<>>)
             ELSE IF \E i \in 1..Len(jobs.items) : jobs.items[i].kind # "dict"
                  THEN Raise("AttributeError")                 \* job.get
                  ELSE Return([i \in 1..Len(jobs.items) |->
                                  NormalizeJob(jobs.items[i].d)])

-----------------------------------------------------------------------------
(* app.py *)

Whitespace == {" ", "\t", "\n", "\r"}

\* s.strip() on a string given as its characters
RECURSIVE lstrip(_)
lstrip(s) == IF s # <<>> /\ s[1] \in Whitespace THEN lstrip(Tail(s)) ELSE s

RECURSIVE rstrip(_)
rstrip(s) ==
    IF s # <<>> /\ s[Len(s)] \in Whitespace
    THEN rstrip(SubSeq(s, 1, Len(s) - 1)) ELSE s

strip(s) == rstrip(lstrip(s))

NoBody == [kind |-> "none", d |-> <<>>]
NoUpstream == [net |-> "none", status |-> 0,
               body |-> [kind |-> "none", hasJobs |-> FALSE, extra |-> FALSE,
                         jobs |-> [kind |-> "None", items |-> <<>>]]]

\* a response with nothing in it but the status code
Resp(code) ==
    [code |-> code, exc |-> "", results |-> <<>>, query |-> <<>>, ok |-> FALSE,
     location |-> "", error |-> "", json |-> <<>>, id |-> <<>>]

\* an exception that leaves the handler: Flask answers 500
Unhandled(exc) == [Resp(500) EXCEPT !.exc = exc]

\* what a handler does: the collection it leaves, whether the store generated
\* an ObjectId, the calls it made, add_application's return value, the answer
Outcome(coll, inserted, cs, r, resp) ==
    [coll |-> coll, inserted |-> inserted, calls |-> cs, ret |-> r,
     response |-> resp]

\* index()
index(coll) == Outcome(coll, FALSE, <<"render_template">>, <<>>, Resp(200))

\* submit without the strip() of the submitted title
submit_NoStrip(coll, frm, up) ==
    LET job_title == DictGet(frm, "jobTitle", <<>>)
        jobs == get_jobs(job_title, up)
    IN  IF job_title # <<>>
        THEN IF jobs.exc # ""
             THEN Outcome(coll, FALSE, <<"get_jobs", "requests.get">>, <<>>,
                          Unhandled(jobs.exc))
             ELSE Outcome(coll, FALSE,
                          <<"get_jobs", "requests.get", "render_template">>, <<>>,
                          [Resp(200) EXCEPT !.results = jobs.value,
                                            !.query = job_title])
        ELSE Outcome(coll, FALSE, <<"render_template">>, <<>>,
                     [Resp(200) EXCEPT !.query = job_title])

\* submit()
submit(coll, frm, up) ==
    LET job_title == strip(DictGet(frm, "jobTitle", <<>>))
        jobs == get_jobs(job_title, up)
    IN  IF job_title # <<>>
        THEN IF jobs.exc # ""
             THEN Outcome(coll, FALSE, <<"get_jobs", "requests.get">>, <<>>,
                          Unhandled(jobs.exc))
             ELSE Outcome(coll, FALSE,
                          <<"get_jobs", "requests.get", "render_template">>, <<>>,
                          [Resp(200) EXCEPT !.results = jobs.value,
                                            !.query = job_title])
        ELSE Outcome(coll, FALSE, <<"render_template">>, <<>>,
                     [Resp(200) EXCEPT !.query = job_title])

\* apply(); oid is the ObjectId the store generates on insert
apply(coll, oid, frm) ==
    LET application_data ==
            [k \in {"title", "company", "location", "link", "status"} |->
                IF k = "status" THEN PStr(DictGet(frm, "status", "applied"))
                ELSE PStr(DictGet(frm, k, ""))]
        added == add_application(coll, oid, application_data)
    IN  Outcome(added.coll, TRUE, <<"add_application", "insert_one">>, added.ret,
                [Resp(302) EXCEPT !.location = "/applications"])

\* applications()
applications(coll) == Outcome(coll, FALSE, <<"render_template">>, <<>>, Resp(200))

\* _to_json(doc)
_to_json(doc) == [doc EXCEPT !._id = ObjectIdStr(doc._id)]

\* api_list_apps()
api_list_apps(coll) ==
    LET apps == list_applications(connect(coll))
    IN  Outcome(coll, FALSE, <<"connect", "list_applications">>, <<>>,
                [Resp(200) EXCEPT !.results =
                    [i \in 1..Len(apps) |-> _to_json(apps[i])]])

\* api_add_app(); bdy is what request.get_json(force=True) parsed
api_add_app(coll, oid, bdy) ==
    IF bdy.kind # "dict"
    THEN Outcome(coll, FALSE, <<>>, <<>>, Unhandled("AttributeError"))
    ELSE
    LET data == bdy.d
        payload ==
            [k \in {"company", "title", "url", "status", "date"} |->
                IF k = "status" THEN DictGet(data, "status", PStr("wishlist"))
                ELSE DictGet(data, k, None)]
        args == <<connect(coll), payload>>
        added == add_application(coll, oid, payload)
    IN  IF Len(args) # AddApplicationArity
        THEN Outcome(coll, FALSE, <<"connect", "add_application">>, <<>>,
                     Unhandled("TypeError"))
        ELSE Outcome(added.coll, TRUE,
                     <<"connect", "add_application", "insert_one">>, added.ret,
                     [Resp(201) EXCEPT !.json = payload, !.id = added.ret])

\* api_update_status answering bool() of a result object, which is always true
api_update_status_AlwaysOk(coll, id, bdy) ==
    IF bdy.kind # "dict"
    THEN Outcome(coll, FALSE, <<>>, <<>>, Unhandled("AttributeError"))
    ELSE
    LET status == DictGet(bdy.d, "status", None)
        parsed == ObjectId(id)
        updated == update_application_status(connect(coll), parsed.oid, status)
    IN  IF ~Truthy(status)
        THEN Outcome(coll, FALSE, <<>>, <<>>,
                     [Resp(400) EXCEPT !.error = "status required"])
        ELSE IF parsed.exc # ""
        THEN Outcome(coll, FALSE, <<"connect", "ObjectId">>, <<>>,
                     Unhandled(parsed.exc))
        ELSE Outcome(updated.coll, FALSE,
                     <<"connect", "ObjectId", "update_application_status">>, <<>>,
                     [Resp(200) EXCEPT !.ok = TRUE])

\* api_update_status testing "status is None" instead of "not status"
api_update_status_NoneCheck(coll, id, bdy) ==
    IF bdy.kind # "dict"
    THEN Outcome(coll, FALSE, <<>>, <<>>, Unhandled("AttributeError"))
    ELSE
    LET status == DictGet(bdy.d, "status", None)
        parsed == ObjectId(id)
        updated == update_application_status(connect(coll), parsed.oid, status)
    IN  IF status = None
        THEN Outcome(coll, FALSE, <<>>, <<>>,
                     [Resp(400) EXCEPT !.error = "status required"])
        ELSE IF parsed.exc # ""
        THEN Outcome(coll, FALSE, <<"connect", "ObjectId">>, <<>>,
                     Unhandled(parsed.exc))
        ELSE Outcome(updated.coll, FALSE,
                     <<"connect", "ObjectId", "update_application_status">>, <<>>,
                     [Resp(200) EXCEPT !.ok = updated.ok])

\* api_update_status(id)
api_update_status(coll, id, bdy) ==
    IF bdy.kind # "dict"
    THEN Outcome(coll, FALSE, <<>>, <<>>, Unhandled("AttributeError"))
    ELSE
    LET status == DictGet(bdy.d, "status", None)
        parsed == ObjectId(id)
        updated == update_application_status(connect(coll), parsed.oid, status)
    IN  IF ~Truthy(status)
        THEN Outcome(coll, FALSE, <<>>, <<>>,
                     [Resp(400) EXCEPT !.error = "status required"])
        ELSE IF parsed.exc # ""
        THEN Outcome(coll, FALSE, <<"connect", "ObjectId">>, <<>>,
                     Unhandled(parsed.exc))
        ELSE Outcome(updated.coll, FALSE,
                     <<"connect", "ObjectId", "update_application_status">>, <<>>,
                     [Resp(200) EXCEPT !.ok = updated.ok])

-----------------------------------------------------------------------------
(* Requests and listing-service outcomes the model draws from *)

RECURSIVE SeqsUpTo(_, _)
SeqsUpTo(S, n) ==
    IF n = 0 THEN {<<>>}
    ELSE LET shorter == SeqsUpTo(S, n - 1)
         IN  shorter \cup {Append(q, x) : q \in shorter, x \in S}

\* POST /submit forms: no jobTitle field, blank titles, one-character titles,
\* titles with whitespace around and inside
Titles == { <<>>, <<" ">>, <<" ", "\t", "\n">>, <<"a">>,
            <<" ", "a", "b", " ">>, <<"a", " ", "b">> }
SubmitForms == {<<>>} \cup {[jobTitle |-> t] : t \in Titles}

\* a listing with every field and one field the client does not know
FullJob == [title |-> PStr("Dev"), company |-> PStr("Acme"),
            location |-> PStr("Oslo"), link |-> PStr("http://x"),
            salary |-> PStr("1")]
JobDicts ==
    {Restrict(FullJob, D) : D \in {DOMAIN FullJob, {}}
                                   \cup {ListingKeys \ {k} : k \in ListingKeys}}
    \cup {[Restrict(FullJob, ListingKeys) EXCEPT !.title = None]}
JobElems ==
    {[kind |-> "dict", d |-> j] : j \in JobDicts}
    \cup {[kind |-> "str", d |-> <<>>]}

JobsValues ==
    {[kind |-> "list", items |-> q] : q \in SeqsUpTo(JobElems, MaxJobs)}
    \cup {[kind |-> k, items |-> <<>>] : k \in {"str", "None", "dict"}}

DictBodies ==
    {[kind |-> "dict", hasJobs |-> TRUE, extra |-> e, jobs |-> j] :
        e \in BOOLEAN, j \in {x \in JobsValues : x.kind # "list"}}
    \cup {[kind |-> "dict", hasJobs |-> TRUE, extra |-> FALSE, jobs |-> j] :
        j \in {x \in JobsValues : x.kind = "list"}}
    \cup {[kind |-> "dict", hasJobs |-> FALSE, extra |-> e,
           jobs |-> [kind |-> "None", items |-> <<>>]] : e \in BOOLEAN}
OtherBodies ==
    {[kind |-> k, hasJobs |-> FALSE, extra |-> FALSE,
      jobs |-> [kind |-> "None", items |-> <<>>]] :
        k \in {"nonjson", "list", "str", "None"}}
GoodBody ==
    [kind |-> "dict", hasJobs |-> TRUE, extra |-> FALSE,
     jobs |-> [kind |-> "list",
               items |-> <<[kind |-> "dict", d |-> Restrict(FullJob, ListingKeys)]>>]]

Upstreams ==
    {[net |-> "fail", status |-> 0, body |-> NoUpstream.body]}
    \cup {[net |-> "ok", status |-> 200, body |-> b] : b \in DictBodies \cup OtherBodies}
    \cup {[net |-> "ok", status |-> c, body |-> b] :
            c \in {300, 404, 500},
            b \in {GoodBody} \cup {x \in OtherBodies : x.kind = "nonjson"}}

\* the outcomes the web application is run against together with its store
FewUpstreams ==
    {up \in Upstreams :
        \/ up.net = "fail"
        \/ up.body = GoodBody
        \/ up.status = 200 /\ up.body.kind \in {"nonjson", "list"}}

\* POST /apply forms
FullForm == [title |-> "Dev", company |-> "Acme", location |-> "Oslo",
             link |-> "http://x", status |-> "interview"]
ApplyForms ==
    {Restrict(FullForm, D) :
        D \in {DOMAIN FullForm, DOMAIN FullForm \ {"status"}, {}}}

\* POST /api/applications bodies
FullApp == [company |-> PStr("Acme"), title |-> PStr("Dev"),
            url |-> PStr("http://x"), status |-> PStr("offer"),
            date |-> PStr("2024-01-01")]
AddBodies ==
    {[kind |-> "dict", d |-> Restrict(FullApp, D)] :
        D \in {DOMAIN FullApp, {"company", "title", "url"}, {}}}
    \cup {[kind |-> "list", d |-> <<>>]}

\* PATCH /api/applications/<id> bodies and ids
PatchBodies ==
    {[kind |-> "dict", d |-> <<>>], [kind |-> "list", d |-> <<>>]}
    \cup {[kind |-> "dict", d |-> [status |-> v]] :
            v \in {None, PStr(""), PInt("0"), PStr("applied"), PStr("offer")}}
    \cup {[kind |-> "dict", d |-> [note |-> PStr("x")]]}
PathIds ==
    {ObjectIdStr(n) : n \in 1..(MaxRecords + 1)}
    \cup {<<"x", "y", "z">>, Append(ToHex(1, OidHexLen - 1), "g")}

-----------------------------------------------------------------------------
(* The state machine: one action per route, and get_all_applications called *)
(* on the collection                                                        *)

Init ==
    /\ collection = <<>>
    /\ oidCounter = 1
    /\ route = "start"
    /\ form = <<>>
    /\ body = NoBody
    /\ pathId = <<>>
    /\ upstream = NoUpstream
    /\ calls = <<>>
    /\ ret = <<>>
    /\ response = Resp(0)

Handle(r, o, frm, bdy, id, up) ==
    /\ collection' = o.coll
    /\ oidCounter' = IF o.inserted THEN oidCounter + 1 ELSE oidCounter
    /\ route' = r
    /\ form' = frm
    /\ body' = bdy
    /\ pathId' = id
    /\ upstream' = up
    /\ calls' = o.calls
    /\ ret' = o.ret
    /\ response' = o.response

GetIndex == Handle("index", index(collection), <<>>, NoBody, <<>>, NoUpstream)

\* POST /submit; no request reaches the listing service for a blank title
SubmitAgainst(ups) ==
    \E frm \in SubmitForms :
        IF strip(DictGet(frm, "jobTitle", <<>>)) = <<>>
        THEN Handle("submit", submit(collection, frm, NoUpstream),
                    frm, NoBody, <<>>, NoUpstream)
        ELSE \E up \in ups :
                Handle("submit", submit(collection, frm, up),
                       frm, NoBody, <<>>, up)

PostSubmit == SubmitAgainst(FewUpstreams)

PostSubmitAny == SubmitAgainst(Upstreams)

PostApply ==
    /\ Len(collection) < MaxRecords
    /\ \E frm \in ApplyForms :
        Handle("apply", apply(collection, oidCounter, frm),
               frm, NoBody, <<>>, NoUpstream)

GetApplications ==
    Handle("applications", applications(collection), <<>>, NoBody, <<>>, NoUpstream)

GetApiApplications ==
    Handle("api_list_apps", api_list_apps(collection), <<>>, NoBody, <<>>, NoUpstream)

PostApiApplications ==
    /\ Len(collection) < MaxRecords
    /\ \E bdy \in AddBodies :
        Handle("api_add_app", api_add_app(collection, oidCounter, bdy),
               <<>>, bdy, <<>>, NoUpstream)

PatchApiApplication ==
    \E id \in PathIds, bdy \in PatchBodies :
        Handle("api_update_status", api_update_status(collection, id, bdy),
               <<>>, bdy, id, NoUpstream)

CallGetAllApplications ==
    Handle("get_all_applications",
           Outcome(collection, FALSE, <<"find">>, <<>>,
                   [Resp(0) EXCEPT !.results = get_all_applications(collection)]),
           <<>>, NoBody, <<>>, NoUpstream)

Next ==
    \/ GetIndex
    \/ PostSubmit
    \/ PostApply
    \/ GetApplications
    \/ GetApiApplications
    \/ PostApiApplications
    \/ PatchApiApplication
    \/ CallGetAllApplications

Spec == Init /\ [][Next]_vars

\* the search page alone, against every listing-service outcome
NextSearch == PostSubmitAny

SpecSearch == Init /\ [][NextSearch]_vars

TypeOK ==
    /\ Len(collection) <= MaxRecords
    /\ oidCounter \in 1..(MaxRecords + 1)

-----------------------------------------------------------------------------
(* Properties *)

Called(f) == \E i \in 1..Len(calls) : calls[i] = f

\* the status a PATCH body carries, None when it has none
PatchStatus(bdy) == DictGet(bdy.d, "status", None)

\* the positions of the stored documents whose id, as a string, is id
Matching(coll, id) == {i \in 1..Len(coll) : ObjectIdStr(coll[i]._id) = id}

\* C1: a PATCH with a non-empty status on the id of a stored record sets that
\* record's status, so that listing the store right after shows the record
\* with that status, and the ok it answers says whether the record was
\* modified.
C1_UpdateSetsStatus ==
    [][ (/\ route' = "api_update_status"
         /\ body'.kind = "dict"
         /\ Truthy(PatchStatus(body'))
         /\ Matching(collection, pathId') # {})
        => LET listed == get_all_applications(collection')
               shown == {i \in 1..Len(listed) : listed[i]._id = pathId'}
           IN  /\ Cardinality(shown) = 1
               /\ \A i \in shown : listed[i].f["status"] = PatchStatus(body')
               /\ response'.code = 200
               /\ response'.exc = ""
               /\ response'.ok = (collection' # collection) ]_vars

\* C1 witness: a PATCH found a stored record and changed its status
C1_Witness ==
    /\ route = "api_update_status"
    /\ response.code = 200
    /\ response.ok
    /\ \E i \in Matching(collection, pathId) :
          collection[i].f["status"] = PStr("offer")

\* C2: a PATCH with a non-empty status on an id that matches no stored
\* record answers ok = false without raising, and changes no record.
C2_UnknownIdAnswersFalse ==
    [][ (/\ route' = "api_update_status"
         /\ body'.kind = "dict"
         /\ Truthy(PatchStatus(body'))
         /\ Matching(collection, pathId') = {})
        => /\ response'.exc = ""
           /\ response'.code = 200
           /\ response'.ok = FALSE
           /\ collection' = collection ]_vars

C5_RecordLifecycle ==
    [][ /\ Len(collection') >= Len(collection)
        /\ \A i \in 1..Len(collection) :
              /\ collection'[i]._id = collection[i]._id
              /\ collection'[i] # collection[i]
                 => /\ route' = "api_update_status"
                    /\ pathId' = ObjectIdStr(collection[i]._id)
                    /\ \A k \in DOMAIN collection[i].f \ {"status"} :
                          /\ k \in DOMAIN collection'[i].f
                          /\ collection'[i].f[k] = collection[i].f[k]
        /\ \A i \in (Len(collection) + 1)..Len(collection') :
              /\ collection'[i]._id \notin Ids(collection)
              /\ route' \in {"apply", "api_add_app"}
        /\ route' \in {"index", "submit", "applications", "api_list_apps",
                       "get_all_applications"}
           => collection' = collection ]_vars

\* C5 witness: two records with different ids, the older one with an updated
\* status
C5_Witness ==
    /\ Len(collection) = 2
    /\ collection[1]._id # collection[2]._id
    /\ collection[1].f["status"] = PStr("offer")
    /\ route = "api_update_status"
    /\ response.ok

\* the characters of the submitted title; none when the field is absent
SubmittedTitle == DictGet(form, "jobTitle", <<>>)

Blank(t) == \A i \in 1..Len(t) : t[i] \in Whitespace

\* C6 as stated: for an empty, whitespace-only or short (one-character) title
\* get_jobs is not invoked and the result is empty.
C6_ShortTitleNotSearched ==
    (route = "submit" /\ (Blank(SubmittedTitle) \/ Len(SubmittedTitle) <= 1))
    => /\ ~Called("get_jobs")
       /\ response.results = <<>>

\* C6 as amended: for an absent, empty or whitespace-only title get_jobs is
\* not invoked, no outbound request is issued and the result is empty.
C6_BlankTitleNotSearched ==
    (route = "submit" /\ Blank(SubmittedTitle))
    => /\ ~Called("get_jobs")
       /\ ~Called("requests.get")
       /\ upstream = NoUpstream
       /\ response.code = 200
       /\ response.results = <<>>
       /\ response.query = <<>>

\* C6 witness: a whitespace-only title was submitted
C6_Witness ==
    /\ route = "submit"
    /\ SubmittedTitle = <<" ", "\t", "\n">>
    /\ calls = <<"render_template">>

\* the listing service answered the request with a 2xx status and JSON
JsonAnswer ==
    /\ route = "submit"
    /\ Called("get_jobs")
    /\ upstream.net = "ok"
    /\ upstream.status \in 200..299
    /\ upstream.body.kind # "nonjson"

\* C7: when the JSON body has no jobs field, or a jobs value that is not a
\* list, get_jobs does not raise and returns the empty list.
C7_NoJobsListGivesEmpty ==
    (/\ JsonAnswer
     /\ \/ upstream.body.kind # "dict"
        \/ ~upstream.body.hasJobs
        \/ upstream.body.jobs.kind # "list")
    => /\ response.exc = ""
       /\ response.results = <<>>

\* C8: get_jobs never raises to its caller, and returns the empty list on a
\* network failure, a non-2xx status, a non-JSON body or unexpected data.
C8_GetJobsNeverRaises ==
    (route = "submit" /\ Called("get_jobs"))
    => /\ response.exc = ""
       /\ (\/ upstream.net = "fail"
           \/ upstream.status \notin 200..299
           \/ upstream.body.kind # "dict")
          => response.results = <<>>

\* C9: for a jobs list, normalization does not raise and yields one listing
\* per element, in order, with exactly the keys title, company, location and
\* link; a missing title is "N/A", a missing company, location or link "".
C9_NormalizeEachJob ==
    (/\ JsonAnswer
     /\ upstream.body.kind = "dict"
     /\ upstream.body.hasJobs
     /\ upstream.body.jobs.kind = "list")
    => LET items == upstream.body.jobs.items
       IN  /\ response.exc = ""
           /\ Len(response.results) = Len(items)
           /\ \A i \in 1..Len(items) :
                /\ DOMAIN response.results[i] = ListingKeys
                /\ \A k \in ListingKeys :
                     IF k \in DOMAIN items[i].d
                     THEN items[i].d[k].t = "str"
                          => response.results[i][k] = items[i].d[k]
                     ELSE response.results[i][k] =
                              PStr(IF k = "title" THEN "N/A" ELSE "")

\* C10: each accepted create submission adds exactly one record: POST /apply
\* with the submitted status, else "applied", and redirects to the
\* applications view; POST /api/applications with the submitted status, else
\* "wishlist", and answers 201 with the id the store assigned.
C10_CreateDefaults ==
    [][ LET n == Len(collection') IN
        /\ route' = "apply"
           => /\ n = Len(collection) + 1
              /\ collection'[n].f["status"] =
                    PStr(IF "status" \in DOMAIN form'
                         THEN form'["status"] ELSE "applied")
              /\ response'.code = 302
              /\ response'.location = "/applications"
        /\ (route' = "api_add_app" /\ body'.kind = "dict")
           => /\ n = Len(collection) + 1
              /\ collection'[n].f["status"] =
                    (IF "status" \in DOMAIN body'.d
                     THEN body'.d["status"] ELSE PStr("wishlist"))
              /\ response'.code = 201
              /\ response'.id = ObjectIdStr(collection'[n]._id) ]_vars

====
